---------------------------- MODULE Spec2Model ----------------------------
(***************************************************************************)
(* Model of src/src/components/ExcelToXmlConverter.tsx: the state of the   *)
(* ExcelToXmlConverter component, its handlers (handleFileUpload,          *)
(* handleDrop, toggleSheet, convertToXml, downloadXml, the two reset       *)
(* buttons) and the helpers escapeXml and sanitizeTagName.                 *)
(*                                                                         *)
(* A JavaScript string is a sequence of one-character strings, so that     *)
(* replace(), the regular expressions and string concatenation are         *)
(* computed character by character.  A JavaScript Set is a duplicate-free  *)
(* sequence in insertion order.                                            *)
(***************************************************************************)
EXTENDS Integers, Sequences, FiniteSets, TLC

VARIABLES
    file,            \* useState<File | null>            (line 16)
    sheets,          \* useState<SheetData[]>            (line 17)
    selectedSheets,  \* useState<Set<string>>            (line 18)
    xmlOutput,       \* useState<string>                 (line 19)
    processing,      \* useState(false)                  (line 20)
    progress,        \* useState(0)                      (line 21)
    toast,           \* title of the last toast({...}) shown, "" when none
    pending,         \* handleFileUpload calls suspended at the await of line 49
    history,         \* whether a suspended call keeps the state it found
    download,        \* under history: the artifact of the last downloadXml
    generatedFrom    \* under history: the file held when xmlOutput was set

vars == <<file, sheets, selectedSheets, xmlOutput, processing, progress, toast,
          pending, history, download, generatedFrom>>

-----------------------------------------------------------------------------
(* Bounds of the model.                                                    *)

\* longest header / cell string drawn for the string family of workbooks
MaxLen == 3
\* most cells in a generated row
MaxCols == 2
\* most data rows in a generated sheet
MaxRows == 2
\* most sheets in a generated workbook
MaxSheets == 3
\* most handleFileUpload calls suspended at the same time
MaxInFlight == 2

-----------------------------------------------------------------------------
(* Characters and strings.                                                 *)

LowerSeq ==
    << "a","b","c","d","e","f","g","h","i","j","k","l","m",
       "n","o","p","q","r","s","t","u","v","w","x","y","z" >>

UpperSeq ==
    << "A","B","C","D","E","F","G","H","I","J","K","L","M",
       "N","O","P","Q","R","S","T","U","V","W","X","Y","Z" >>

DigitSeq == << "0","1","2","3","4","5","6","7","8","9" >>

Range(s) == { s[i] : i \in 1..Len(s) }

\* the 1-based indexes of the character c in x, ascending
Positions(x, c) == SelectSeq([i \in 1..Len(x) |-> i], LAMBDA i : x[i] = c)

Lower == Range(LowerSeq)
Upper == Range(UpperSeq)
Digit == Range(DigitSeq)

\* the i flag of a regular expression: letters compare by their lower case
ToLowerChar(c) ==
    IF c \in Upper
      THEN LowerSeq[CHOOSE i \in 1..26 : UpperSeq[i] = c]
      ELSE c

\* str.replace(/c/g, rep) for a single character c: every occurrence, left
\* to right, the replacement itself is not scanned again
RECURSIVE ReplaceAll(_, _, _)
ReplaceAll(str, c, rep) ==
    IF str = <<>> THEN <<>>
    ELSE (IF Head(str) = c THEN rep ELSE <<Head(str)>>)
         \o ReplaceAll(Tail(str), c, rep)

\* decimal digits of a natural number
RECURSIVE NatToString(_)
NatToString(n) ==
    IF n < 10 THEN <<DigitSeq[n + 1]>>
    ELSE NatToString(n \div 10) \o <<DigitSeq[(n % 10) + 1]>>

-----------------------------------------------------------------------------
(* JavaScript values held in the cells of SheetData.data (any[][]).        *)
(* sheet_to_json(worksheet, {header: 1, defval: ""}) yields raw values:    *)
(* strings, numbers and booleans, and "" for a blank cell.                 *)

JsString(s)  == [t |-> "string", s |-> s]
JsNumber(n)  == [t |-> "number", n |-> n]
JsBoolean(b) == [t |-> "boolean", b |-> b]
undefined    == [t |-> "undefined"]

\* String(v)
String(v) ==
    CASE v.t = "string"    -> v.s
      [] v.t = "number"    -> IF v.n < 0 THEN <<"-">> \o NatToString(0 - v.n)
                                         ELSE NatToString(v.n)
      [] v.t = "boolean"   -> IF v.b THEN <<"t","r","u","e">>
                                     ELSE <<"f","a","l","s","e">>
      [] v.t = "undefined" -> <<"u","n","d","e","f","i","n","e","d">>

\* the truthiness of v, as the condition of ?: takes it
Truthy(v) ==
    CASE v.t = "string"    -> v.s # <<>>
      [] v.t = "number"    -> v.n # 0
      [] v.t = "boolean"   -> v.b
      [] v.t = "undefined" -> FALSE

\* cell !== ""
NotEmptyString(v) == ~(v.t = "string" /\ v.s = <<>>)

\* arr[i] for a 0-based index i: undefined beyond the end
At(arr, i) == IF i + 1 \in 1..Len(arr) THEN arr[i + 1] ELSE undefined

-----------------------------------------------------------------------------
(* Helper functions (lines 200-213).                                       *)

\* escapeXml with '&' replaced last: the ampersands of the entities written
\* before are escaped again
escapeXmlAmpersandLast(str) ==
    LET s1 == ReplaceAll(str, "<",  <<"&","l","t",";">>)
        s2 == ReplaceAll(s1,  ">",  <<"&","g","t",";">>)
        s3 == ReplaceAll(s2,  "\"", <<"&","q","u","o","t",";">>)
        s4 == ReplaceAll(s3,  "'",  <<"&","a","p","o","s",";">>)
    IN  ReplaceAll(s4, "&", <<"&","a","m","p",";">>)

escapeXml(str) ==
    LET s1 == ReplaceAll(str, "&",  <<"&","a","m","p",";">>)
        s2 == ReplaceAll(s1,  "<",  <<"&","l","t",";">>)
        s3 == ReplaceAll(s2,  ">",  <<"&","g","t",";">>)
        s4 == ReplaceAll(s3,  "\"", <<"&","q","u","o","t",";">>)
    IN  ReplaceAll(s4, "'", <<"&","a","p","o","s",";">>)

\* [a-zA-Z0-9_-]
TagChar(c) == c \in Lower \cup Upper \cup Digit \cup {"_", "-"}

\* [a-zA-Z_]
TagStartChar(c) == c \in Lower \cup Upper \cup {"_"}

\* sanitizeTagName without its second replace
sanitizeTagNameKeepsLead(tag) ==
    [i \in 1..Len(tag) |-> IF TagChar(tag[i]) THEN tag[i] ELSE "_"]

sanitizeTagName(tag) ==
    LET t1 == [i \in 1..Len(tag) |-> IF TagChar(tag[i]) THEN tag[i] ELSE "_"]
    IN  IF t1 # <<>> /\ ~TagStartChar(t1[1])
          THEN <<"_">> \o Tail(t1)
          ELSE t1

-----------------------------------------------------------------------------
(* The serializer: the try block of convertToXml (lines 127-161).          *)

\* the concatenation of a sequence of strings
RECURSIVE Concat(_)
Concat(strs) ==
    IF strs = <<>> THEN <<>> ELSE Head(strs) \o Concat(Tail(strs))

\* '<?xml version="1.0" encoding="UTF-8"?>\n<Workbook>\n'          (line 127)
XmlProlog ==
    <<"<","?","x","m","l"," ","v","e","r","s","i","o","n","=","\"","1",".","0","\"",
      " ","e","n","c","o","d","i","n","g","=","\"","U","T","F","-","8","\"","?",">","\n",
      "<","W","o","r","k","b","o","o","k",">","\n">>

\* '</Workbook>'                                                   (line 161)
XmlEpilog == <<"<","/","W","o","r","k","b","o","o","k",">">>

\* the tag of the cell at 0-based cellIndex                   (lines 145-147)
tagName(headers, cellIndex) ==
    IF Truthy(At(headers, cellIndex))
      THEN sanitizeTagName(String(At(headers, cellIndex)))
      ELSE <<"C","o","l","u","m","n">> \o NatToString(cellIndex + 1)

\* `      <${tagName}>${value}</${tagName}>\n`                 (lines 148-149)
cellXml(headers, cell, cellIndex) ==
    LET tag   == tagName(headers, cellIndex)
        value == escapeXml(String(cell))
    IN  <<" "," "," "," "," "," ","<">> \o tag \o <<">">> \o value
        \o <<"<","/">> \o tag \o <<">","\n">>

\* rowHasContent testing row.length > 0 instead
rowHasCells(row) == Len(row) > 0

\* row.some(cell => cell !== "")                                   (line 141)
rowHasContent(row) == \E i \in 1..Len(row) : NotEmptyString(row[i])

\* one iteration of the for loop over the data rows           (lines 140-153)
rowXml(headers, row) ==
    IF rowHasContent(row)
      THEN <<" "," "," "," ","<","R","o","w",">","\n">>
           \o Concat([i \in 1..Len(row) |-> cellXml(headers, row[i], i - 1)])
           \o <<" "," "," "," ","<","/","R","o","w",">","\n">>
      ELSE <<>>

\* the rows of a sheet: nothing for data = [], else the rows from index 1
\* on, under the headers of row 0                             (lines 135-155)
rowsXml(data) ==
    IF Len(data) > 0
      THEN Concat([i \in 1..(Len(data) - 1) |-> rowXml(data[1], data[i + 1])])
      ELSE <<>>

\* sheetXml with '  </Sheet>\n' appended inside the if of line 135: a sheet
\* without rows is left open
sheetXmlClosesInsideIf(sheet) ==
    <<" "," ","<","S","h","e","e","t"," ","n","a","m","e","=","\"">>
    \o escapeXml(sheet.name) \o <<"\"",">","\n">>
    \o (IF Len(sheet.data) > 0
          THEN rowsXml(sheet.data) \o <<" "," ","<","/","S","h","e","e","t",">","\n">>
          ELSE <<>>)

\* one iteration of selectedSheetsArray.forEach               (lines 132-158)
sheetXml(sheet) ==
    <<" "," ","<","S","h","e","e","t"," ","n","a","m","e","=","\"">>
    \o escapeXml(sheet.name) \o <<"\"",">","\n">>
    \o rowsXml(sheet.data)
    \o <<" "," ","<","/","S","h","e","e","t",">","\n">>

\* selectedSheetsArray built by iterating the Set: the held sheets in the
\* order their names were added to the selection
selectedSheetsArrayInSetOrder(shs, selected) ==
    LET names == SelectSeq(selected, LAMBDA n : \E i \in 1..Len(shs) : shs[i].name = n)
    IN  [j \in 1..Len(names) |->
            shs[CHOOSE i \in 1..Len(shs) : shs[i].name = names[j]]]

\* sheets.filter(s => selectedSheets.has(s.name))                  (line 129)
selectedSheetsArray(shs, selected) ==
    SelectSeq(shs, LAMBDA s : s.name \in Range(selected))

\* the string convertToXml hands to setXmlOutput              (lines 127-162)
xmlOf(shs, selected) ==
    LET arr == selectedSheetsArray(shs, selected)
    IN  XmlProlog \o Concat([i \in 1..Len(arr) |-> sheetXml(arr[i])]) \o XmlEpilog

\* the last value given to setProgress by convertToXml   (lines 124, 130, 158)
progressOf(shs, selected) ==
    IF Len(selectedSheetsArray(shs, selected)) = 0 THEN 0 ELSE 100

-----------------------------------------------------------------------------
(* The files a user can hand to the component.  A File has a name, a MIME  *)
(* type and bytes; the bytes are modelled by what XLSX.read and            *)
(* sheet_to_json make of them (lines 49-58): the SheetData list, or a      *)
(* throw.                                                                  *)

null == [null |-> TRUE]

Str(v) == JsString(v)

Workbook(shs) == [ok |-> TRUE, sheets |-> shs]
Corrupt       == [ok |-> FALSE]

\* Sheet1 of the spec's scenario, and a sheet with markup in header and cell
SheetS1 ==
    [name |-> <<"S","1">>,
     data |-> << <<Str(<<"N","a","m","e">>), Str(<<"A","g","e">>)>>,
                 <<Str(<<"A","l","i","c","e">>), Str(<<"3","0">>)>>,
                 <<Str(<<>>), Str(<<>>)>> >>]

SheetS2 ==
    [name |-> <<"S","2">>,
     data |-> << <<Str(<<"A","&","B">>)>>, <<Str(<<"x","<","y">>)>> >>]

\* another workbook's sheet of the same name S2
SheetS2b ==
    [name |-> <<"S","2">>,
     data |-> << <<Str(<<"h">>)>>, <<Str(<<"v">>)>> >>]

XlsxMime == "application/vnd.openxmlformats-officedocument.spreadsheetml.sheet"
XlsMime  == "application/vnd.ms-excel"
CsvMime  == "text/csv"

\* accepted by MIME type and by name
FileA == [name |-> <<"a",".","x","l","s","x">>, type |-> XlsxMime,
          bytes |-> Workbook(<<SheetS1, SheetS2>>)]
\* accepted by name only, in upper case
FileB == [name |-> <<"B",".","X","L","S">>, type |-> "",
          bytes |-> Workbook(<<SheetS2b>>)]
\* accepted by MIME type only; its bytes do not parse
FileBad == [name |-> <<"d","a","t","a">>, type |-> CsvMime, bytes |-> Corrupt]
\* accepted by name only, .csv in mixed case under a MIME type that is not
\* accepted; its bytes do not parse
FileCsv == [name |-> <<"n",".","C","s","V">>, type |-> "text/plain",
            bytes |-> Corrupt]
\* the spec's scenario: report.txt, text/plain
FileTxt == [name |-> <<"r","e","p","o","r","t",".","t","x","t">>,
            type |-> "text/plain", bytes |-> Corrupt]
\* an accepted extension that is not at the end of the name
FileBak == [name |-> <<"x",".","x","l","s","x",".","b","a","k">>, type |-> "",
            bytes |-> Workbook(<<SheetS2b>>)]
\* an accepted extension without its dot
FileNoDot == [name |-> <<"x","l","s","x">>, type |-> "application/octet-stream",
              bytes |-> Workbook(<<SheetS2b>>)]
\* a longer extension that starts like an accepted one
FileXlsm == [name |-> <<"m",".","x","l","s","m">>, type |-> "",
             bytes |-> Workbook(<<SheetS2b>>)]

Files == {FileA, FileB, FileBad, FileCsv, FileTxt, FileBak, FileNoDot, FileXlsm}

-----------------------------------------------------------------------------
(* handleFileUpload (lines 26-78).                                         *)

\* validTypes                                                  (lines 29-33)
validTypes == {XlsxMime, XlsMime, CsvMime}

\* matchesExtension without the $ of the pattern: the extension anywhere
matchesExtensionAnywhere(name) ==
    \E ext \in { <<"x","l","s","x">>, <<"x","l","s">>, <<"c","s","v">> } :
        \E p \in 1..Len(name) :
            /\ p + Len(ext) <= Len(name)
            /\ name[p] = "."
            /\ \A i \in 1..Len(ext) : ToLowerChar(name[p + i]) = ext[i]

\* name.match(/\.(xlsx|xls|csv)$/i)                                (line 35)
matchesExtension(name) ==
    \E ext \in { <<"x","l","s","x">>, <<"x","l","s">>, <<"c","s","v">> } :
        /\ Len(name) >= Len(ext) + 1
        /\ name[Len(name) - Len(ext)] = "."
        /\ \A i \in 1..Len(ext) :
              ToLowerChar(name[Len(name) - Len(ext) + i]) = ext[i]

\* the condition of line 35
invalidFileType(f) == f.type \notin validTypes /\ ~matchesExtension(f.name)

\* new Set(names): insertion order, later duplicates dropped
RECURSIVE NewSet(_)
NewSet(names) ==
    IF names = <<>> THEN <<>>
    ELSE LET init == NewSet(SubSeq(names, 1, Len(names) - 1))
             last == names[Len(names)]
         IN  IF last \in Range(init) THEN init ELSE Append(init, last)

\* extractedSheets.map(s => s.name)
sheetNames(shs) == [i \in 1..Len(shs) |-> shs[i].name]

\* the state a call of handleFileUpload found: a history value, kept with
\* the suspended call under SpecHistory to state what error handling restores
Snapshot ==
    IF history
      THEN [file |-> file, sheets |-> sheets, selectedSheets |-> selectedSheets,
            xmlOutput |-> xmlOutput]
      ELSE null

\* handleFileUpload up to the await of line 49                (lines 26-49)
handleFileUpload(uploadedFile) ==
    IF invalidFileType(uploadedFile)
      THEN /\ toast' = "Invalid File Type"
           /\ UNCHANGED <<file, sheets, selectedSheets, xmlOutput, processing,
                          progress, pending, history, download, generatedFrom>>
      ELSE /\ Cardinality(pending) < MaxInFlight
           /\ file' = uploadedFile
           /\ processing' = TRUE
           /\ progress' = 20
           /\ LET id == CHOOSE i \in 1..MaxInFlight :
                            /\ \A u \in pending : u.id # i
                            /\ \A j \in 1..(i - 1) : \E u \in pending : u.id = j
              IN  pending' = pending \cup
                      {[id |-> id, file |-> uploadedFile, pre |-> Snapshot]}
           /\ UNCHANGED <<sheets, selectedSheets, xmlOutput, toast, history,
                          download, generatedFrom>>

\* uploadLoaded without the setSelectedSheets of line 61
uploadLoadedKeepsSelection(u) ==
    /\ u \in pending
    /\ u.file.bytes.ok
    /\ sheets' = u.file.bytes.sheets
    /\ progress' = 100
    /\ toast' = "File Loaded Successfully"
    /\ processing' = FALSE
    /\ pending' = pending \ {u}
    /\ UNCHANGED <<file, xmlOutput, selectedSheets, history, download,
                   generatedFrom>>

\* the rest of the try block once the bytes are read and parsed, then the
\* finally block                                       (lines 50-67, 75-77)
uploadLoaded(u) ==
    /\ u \in pending
    /\ u.file.bytes.ok
    /\ sheets' = u.file.bytes.sheets
    /\ selectedSheets' = NewSet(sheetNames(u.file.bytes.sheets))
    /\ progress' = 100
    /\ toast' = "File Loaded Successfully"
    /\ processing' = FALSE
    /\ pending' = pending \ {u}
    /\ UNCHANGED <<file, xmlOutput, history, download, generatedFrom>>

\* arrayBuffer() or XLSX.read throws: the catch block, then the finally
\* block                                                      (lines 68-77)
uploadFailed(u) ==
    /\ u \in pending
    /\ ~u.file.bytes.ok
    /\ toast' = "Error Reading File"
    /\ file' = null
    /\ processing' = FALSE
    /\ pending' = pending \ {u}
    /\ UNCHANGED <<sheets, selectedSheets, xmlOutput, progress, history,
                   download, generatedFrom>>

-----------------------------------------------------------------------------
(* toggleSheet (lines 102-110) and convertToXml (lines 113-177).           *)

toggleSheet(sheetName) ==
    /\ selectedSheets' =
          IF sheetName \in Range(selectedSheets)
            THEN SelectSeq(selectedSheets, LAMBDA n : n # sheetName)
            ELSE Append(selectedSheets, sheetName)
    /\ UNCHANGED <<file, sheets, xmlOutput, processing, progress, toast,
                   pending, history, download, generatedFrom>>

\* convertToXml without the sheets.length === 0 test of line 114
convertToXmlAnySheets ==
    IF Len(selectedSheets) = 0
      THEN /\ toast' = "No Sheets Selected"
           /\ UNCHANGED <<file, sheets, selectedSheets, xmlOutput, processing,
                          progress, pending, history, download, generatedFrom>>
      ELSE /\ xmlOutput' = xmlOf(sheets, selectedSheets)
           /\ progress' = progressOf(sheets, selectedSheets)
           /\ toast' = "Conversion Complete"
           /\ processing' = FALSE
           /\ generatedFrom' = (IF history THEN file ELSE null)
           /\ UNCHANGED <<file, sheets, selectedSheets, pending, history,
                          download>>

\* The handler runs to its end inside one event, so React renders only the
\* state after the finally block: processing is false again, progress is
\* the last value set.  Nothing in the try block throws on SheetData.
convertToXml ==
    IF Len(sheets) = 0 \/ Len(selectedSheets) = 0
      THEN /\ toast' = "No Sheets Selected"
           /\ UNCHANGED <<file, sheets, selectedSheets, xmlOutput, processing,
                          progress, pending, history, download, generatedFrom>>
      ELSE /\ xmlOutput' = xmlOf(sheets, selectedSheets)
           /\ progress' = progressOf(sheets, selectedSheets)
           /\ toast' = "Conversion Complete"
           /\ processing' = FALSE
           /\ generatedFrom' = (IF history THEN file ELSE null)
           /\ UNCHANGED <<file, sheets, selectedSheets, pending, history,
                          download>>

-----------------------------------------------------------------------------
(* downloadXml (lines 180-197).                                            *)

\* name.replace(/\.[^/.]+$/, ""): the name without its last '.' and what
\* follows it, when at least one character follows and none of them is '/'
stripExtension(name) ==
    LET dots == Positions(name, ".")
    IN  IF dots = <<>> THEN name
        ELSE LET p == dots[Len(dots)]
             IN  IF p < Len(name) /\ \A i \in (p + 1)..Len(name) : name[i] # "/"
                   THEN SubSeq(name, 1, p - 1)
                   ELSE name

\* the value given to a.download                                  (line 187)
downloadName ==
    IF file # null
      THEN stripExtension(file.name) \o <<".","x","m","l">>
      ELSE <<"o","u","t","p","u","t",".","x","m","l">>

\* The artifact handed to the browser leaves the component; its name is
\* kept, as a record of what was delivered, under history.
downloadXml ==
    IF xmlOutput = <<>>
      THEN UNCHANGED vars
      ELSE /\ download' = (IF history THEN [name |-> downloadName] ELSE null)
           /\ toast' = "Download Complete"
           /\ UNCHANGED <<file, sheets, selectedSheets, xmlOutput, processing,
                          progress, pending, history, generatedFrom>>

-----------------------------------------------------------------------------
(* The events the rendered component offers (lines 215-381).               *)

\* <input type="file"> onChange, rendered while no file is held (235-251)
SelectFile ==
    /\ file = null
    /\ \E f \in Files : handleFileUpload(f)

\* onDrop of the drop zone, always rendered              (lines 91-99, 233)
handleDrop ==
    \E f \in Files : handleFileUpload(f)

\* the bytes of a suspended upload arrive
UploadResolves ==
    \E u \in pending : uploadLoaded(u)

UploadRejects ==
    \E u \in pending : uploadFailed(u)

\* "Change File", rendered while a file is held              (lines 268-274)
ChangeFile ==
    /\ file # null
    /\ file' = null
    /\ sheets' = <<>>
    /\ xmlOutput' = <<>>
    /\ UNCHANGED <<selectedSheets, processing, progress, toast, pending,
                   history, download, generatedFrom>>

\* the sheet selection card is rendered                           (line 288)
SelectionCardShown == Len(sheets) > 0 /\ xmlOutput = <<>>

\* a sheet's Checkbox                                        (lines 292-298)
ClickCheckbox ==
    /\ SelectionCardShown
    /\ \E i \in 1..Len(sheets) : toggleSheet(sheets[i].name)

\* "Convert to XML", disabled without a selection or while processing
\*                                                           (lines 311-317)
ClickConvert ==
    /\ SelectionCardShown
    /\ ~(Len(selectedSheets) = 0 \/ processing)
    /\ convertToXml

\* "Save XML", rendered with the output                     (lines 327-337)
ClickSaveXml ==
    /\ xmlOutput # <<>>
    /\ downloadXml

\* "Convert Another File", rendered with the output          (lines 327, 347-357)
ConvertAnotherFile ==
    /\ xmlOutput # <<>>
    /\ xmlOutput' = <<>>
    /\ file' = null
    /\ sheets' = <<>>
    /\ UNCHANGED <<selectedSheets, processing, progress, toast, pending,
                   history, download, generatedFrom>>

Init ==
    /\ file = null
    /\ sheets = <<>>
    /\ selectedSheets = <<>>
    /\ xmlOutput = <<>>
    /\ processing = FALSE
    /\ progress = 0
    /\ toast = ""
    /\ pending = {}
    /\ history = FALSE
    /\ download = null
    /\ generatedFrom = null

\* the same component, each suspended call keeping the state it found, and
\* no upload started while another is suspended
InitHistory ==
    /\ file = null
    /\ sheets = <<>>
    /\ selectedSheets = <<>>
    /\ xmlOutput = <<>>
    /\ processing = FALSE
    /\ progress = 0
    /\ toast = ""
    /\ pending = {}
    /\ history = TRUE
    /\ download = null
    /\ generatedFrom = null

Next ==
    \/ SelectFile
    \/ handleDrop
    \/ UploadResolves
    \/ UploadRejects
    \/ ChangeFile
    \/ ClickCheckbox
    \/ ClickConvert
    \/ ClickSaveXml
    \/ ConvertAnotherFile

Spec == Init /\ [][Next]_vars

\* The promise of arrayBuffer() settles: a suspended call of handleFileUpload
\* is resumed, in its try block or in its catch block.
SpecLive ==
    /\ Init
    /\ [][Next]_vars
    /\ WF_vars(UploadResolves)
    /\ WF_vars(UploadRejects)

NextOneAtATime ==
    \/ pending = {} /\ SelectFile
    \/ pending = {} /\ handleDrop
    \/ UploadResolves
    \/ UploadRejects
    \/ ChangeFile
    \/ ClickCheckbox
    \/ ClickConvert
    \/ ClickSaveXml
    \/ ConvertAnotherFile

SpecHistory == InitHistory /\ [][NextOneAtATime]_vars

-----------------------------------------------------------------------------
(* The handlers called as functions, whatever is rendered: toggleSheet     *)
(* with the name of a held sheet (its one call site, line 297) and         *)
(* convertToXml also where its button is hidden or disabled.               *)

CallToggleSheet ==
    \E i \in 1..Len(sheets) : toggleSheet(sheets[i].name)

CallConvertToXml == convertToXml

NextCall ==
    \/ Next
    \/ CallToggleSheet
    \/ CallConvertToXml

SpecCall == Init /\ [][NextCall]_vars

-----------------------------------------------------------------------------
(* Workbooks for the serializer: the component right after it loaded a     *)
(* workbook drawn from bounded families, then driven by the check boxes    *)
(* and the Convert button.                                                 *)

SeqsUpTo(S, n) == UNION { [1..k -> S] : k \in 0..n }

\* characters of generated header strings: letters, a digit, '-', '_', and
\* characters that no tag name may hold
HeaderChars == {"a", "Z", "7", "-", "_", " ", "&", "<"}

\* characters of generated cell strings: the five escaped ones, and ';'
CellChars == {"&", "<", ">", "\"", "'", "a", ";"}

\* header cells as sheet_to_json yields them: "", strings, numbers, booleans
HeaderValues ==
    {Str(<<>>), Str(<<"h">>), Str(<<"1"," ","h">>), JsNumber(0), JsNumber(7),
     JsBoolean(FALSE), JsBoolean(TRUE)}

\* a data row that is longer than every generated header row
LongRow == [i \in 1..(MaxCols + 1) |-> IF i = 1 THEN JsNumber(0) ELSE Str(<<"v">>)]

\* rows of blank and filled cells, ragged
PlainRows == SeqsUpTo({Str(<<>>), Str(<<"a">>)}, MaxCols)

\* data of one sheet: no row at all; a fixed header row over every list of
\* plain rows; every header row over the long row; one header over a cell
\* of every kind of value; every header string over one cell; one header
\* over every cell string
SheetDatas ==
    {<<>>}
    \cup { <<<<Str(<<"h">>), Str(<<>>)>>>> \o rows : rows \in SeqsUpTo(PlainRows, MaxRows) }
    \cup { <<hdr, LongRow>> : hdr \in SeqsUpTo(HeaderValues, MaxCols) }
    \cup { <<<<Str(<<"h">>)>>, <<v>>>> : v \in HeaderValues }
    \cup { <<<<Str(h)>>, <<Str(<<"v">>)>>>> : h \in SeqsUpTo(HeaderChars, MaxLen) }
    \cup { <<<<Str(<<"h">>)>>, <<Str(c)>>>> : c \in SeqsUpTo(CellChars, MaxLen) }

\* a workbook of k sheets named A, B&, C, ...: the first without rows, the
\* second with a header row only
ManySheets(k) ==
    [i \in 1..k |->
        [name |-> IF i = 2 THEN <<UpperSeq[i], "&">> ELSE <<UpperSeq[i]>>,
         data |-> CASE i = 1 -> <<>>
                    [] i = 2 -> <<<<Str(<<"h">>)>>>>
                    [] OTHER -> <<<<Str(<<"h">>)>>, <<Str(NatToString(i))>>>>]]

\* sheet names that hold the characters escapeXml replaces, and a space
MarkupNames ==
    { <<"\"">>, <<"<",">">>, <<"'","&">>, <<"a"," ","b">> }

GeneratedWorkbooks ==
    { <<[name |-> <<"S">>, data |-> d]>> : d \in SheetDatas }
    \cup { ManySheets(k) : k \in 2..MaxSheets }
    \cup { <<[name |-> n, data |-> <<<<Str(<<"h">>)>>, <<Str(<<"v">>)>>>>]>>
             : n \in MarkupNames }

\* the state uploadLoaded leaves for a file g.xlsx holding the workbook
InitXml ==
    /\ sheets \in GeneratedWorkbooks
    /\ file = [name |-> <<"g",".","x","l","s","x">>, type |-> XlsxMime,
               bytes |-> Workbook(sheets)]
    /\ selectedSheets = NewSet(sheetNames(sheets))
    /\ xmlOutput = <<>>
    /\ processing = FALSE
    /\ progress = 100
    /\ toast = "File Loaded Successfully"
    /\ pending = {}
    /\ history = FALSE
    /\ download = null
    /\ generatedFrom = null

NextXml ==
    \/ ClickCheckbox
    \/ ClickConvert

SpecXml == InitXml /\ [][NextXml]_vars

-----------------------------------------------------------------------------
(* Reading a document back: the markup of a string and the element tree    *)
(* it spells, used to state what convertToXml emitted.                     *)

\* The tags of x (the text between each '<' and the next '>') and the text
\* that follows each tag; ok when '<' and '>' alternate.
Markup(x) ==
    LET lt == Positions(x, "<")
        gt == Positions(x, ">")
        n  == Len(lt)
        ok == /\ Len(gt) = n
              /\ \A k \in 1..n : /\ lt[k] < gt[k]
                                 /\ k < n => gt[k] < lt[k + 1]
    IN  IF ~ok THEN [ok |-> FALSE, lead |-> <<>>, tags |-> <<>>, text |-> <<>>]
        ELSE [ok   |-> TRUE,
              lead |-> IF n = 0 THEN x ELSE SubSeq(x, 1, lt[1] - 1),
              tags |-> [k \in 1..n |-> SubSeq(x, lt[k] + 1, gt[k] - 1)],
              text |-> [k \in 1..n |->
                          SubSeq(x, gt[k] + 1,
                                 IF k < n THEN lt[k + 1] - 1 ELSE Len(x))]]

IsClosingTag(t) == t # <<>> /\ t[1] = "/"

\* the element name of an opening tag: its characters before the first space
ElementName(t) ==
    LET sp == Positions(t, " ")
    IN  IF sp = <<>> THEN t ELSE SubSeq(t, 1, sp[1] - 1)

\* what follows the element name and its space in an opening tag
Attributes(t) ==
    LET sp == Positions(t, " ")
    IN  IF sp = <<>> THEN <<>> ELSE SubSeq(t, sp[1] + 1, Len(t))

Blank(txt) == \A i \in 1..Len(txt) : txt[i] \in {" ", "\n"}

Failed == [ok |-> FALSE, val |-> <<>>, next |-> 0]

\* elements with text only, from tag k up to the closing tag of their parent
RECURSIVE ReadCells(_, _)
ReadCells(m, k) ==
    IF k > Len(m.tags) THEN Failed
    ELSE IF IsClosingTag(m.tags[k]) THEN [ok |-> TRUE, val |-> <<>>, next |-> k]
    ELSE IF k + 1 > Len(m.tags) \/ m.tags[k + 1] # <<"/">> \o m.tags[k]
            \/ ~Blank(m.text[k + 1])
      THEN Failed
      ELSE LET rest == ReadCells(m, k + 2)
           IN  IF ~rest.ok THEN Failed
               ELSE [ok   |-> TRUE,
                     val  |-> <<[tag |-> m.tags[k], text |-> m.text[k]]>> \o rest.val,
                     next |-> rest.next]

\* elements of text-only elements, from tag k up to the closing tag of
\* their parent
RECURSIVE ReadRows(_, _)
ReadRows(m, k) ==
    IF k > Len(m.tags) THEN Failed
    ELSE IF IsClosingTag(m.tags[k]) THEN [ok |-> TRUE, val |-> <<>>, next |-> k]
    ELSE LET cells == ReadCells(m, k + 1)
         IN  IF ~cells.ok \/ ~Blank(m.text[k])
                \/ m.tags[cells.next] # <<"/">> \o m.tags[k]
                \/ ~Blank(m.text[cells.next])
               THEN Failed
               ELSE LET rest == ReadRows(m, cells.next + 1)
                    IN  IF ~rest.ok THEN Failed
                        ELSE [ok   |-> TRUE,
                              val  |-> <<[tag |-> m.tags[k], cells |-> cells.val]>>
                                       \o rest.val,
                              next |-> rest.next]

\* the children of the root, from tag k up to the closing tag of the root
RECURSIVE ReadSheets(_, _)
ReadSheets(m, k) ==
    IF k > Len(m.tags) THEN Failed
    ELSE IF IsClosingTag(m.tags[k]) THEN [ok |-> TRUE, val |-> <<>>, next |-> k]
    ELSE LET rows == ReadRows(m, k + 1)
         IN  IF ~rows.ok \/ ~Blank(m.text[k])
                \/ m.tags[rows.next] # <<"/">> \o ElementName(m.tags[k])
                \/ ~Blank(m.text[rows.next])
               THEN Failed
               ELSE LET rest == ReadSheets(m, rows.next + 1)
                    IN  IF ~rest.ok THEN Failed
                        ELSE [ok   |-> TRUE,
                              val  |-> <<[tag  |-> ElementName(m.tags[k]),
                                          attr |-> Attributes(m.tags[k]),
                                          rows |-> rows.val]>> \o rest.val,
                              next |-> rest.next]

\* The document x spells: a declaration, then one root element that holds
\* elements (sheets) of elements (rows) of text-only elements (cells).
ReadDocument(x) ==
    LET m == Markup(x)
    IN  IF ~m.ok \/ Len(m.tags) < 3 \/ m.lead # <<>> THEN [ok |-> FALSE]
        ELSE LET body == ReadSheets(m, 3)
             IN  IF /\ m.tags[1] # <<>>
                    /\ m.tags[1][1] = "?"
                    /\ Blank(m.text[1])
                    /\ ~IsClosingTag(m.tags[2])
                    /\ Blank(m.text[2])
                    /\ body.ok
                    /\ body.next = Len(m.tags)
                    /\ m.tags[body.next] = <<"/">> \o m.tags[2]
                    /\ m.text[body.next] = <<>>
                   THEN [ok |-> TRUE, decl |-> m.tags[1], root |-> m.tags[2],
                         sheets |-> body.val]
                   ELSE [ok |-> FALSE]

\* the document held as output
OutputDocument == ReadDocument(xmlOutput)

-----------------------------------------------------------------------------
(* What the statements below compare the output with.                      *)

\* the entity of one character, the character itself when it has none
Entity(c) ==
    CASE c = "&"  -> <<"&","a","m","p",";">>
      [] c = "<"  -> <<"&","l","t",";">>
      [] c = ">"  -> <<"&","g","t",";">>
      [] c = "\"" -> <<"&","q","u","o","t",";">>
      [] c = "'"  -> <<"&","a","p","o","s",";">>
      [] OTHER    -> <<c>>

\* str with each of its characters replaced by its entity, once
EscapedOnce(str) == Concat([i \in 1..Len(str) |-> Entity(str[i])])

Entities == { Entity(c) : c \in {"&", "<", ">", "\"", "'"} }

\* ^[A-Za-z_][A-Za-z0-9_-]*$
IsXmlName(t) ==
    /\ Len(t) >= 1
    /\ t[1] \in Lower \cup Upper \cup {"_"}
    /\ \A i \in 1..Len(t) : t[i] \in Lower \cup Upper \cup Digit \cup {"_", "-"}

\* a header as the spec sanitizes it: every character outside [A-Za-z0-9_-]
\* becomes '_', then a leading character outside [A-Za-z_] becomes '_'
SanitizedHeader(h) ==
    [i \in 1..Len(h) |->
        IF h[i] \notin Lower \cup Upper \cup Digit \cup {"_", "-"} THEN "_"
        ELSE IF i = 1 /\ h[i] \notin Lower \cup Upper \cup {"_"} THEN "_"
        ELSE h[i]]

\* the names of the held sheets that are selected, in extraction order
SelectedNamesInOrder ==
    SelectSeq(sheetNames(sheets), LAMBDA n : n \in Range(selectedSheets))

\* the held sheets that are selected, in extraction order
SelectedInOrder ==
    SelectSeq(sheets, LAMBDA sh : \E i \in 1..Len(selectedSheets) :
                                      selectedSheets[i] = sh.name)

\* the data rows (index 1 and above) of a sheet that have a non-empty cell
ContentRows(data) ==
    IF data = <<>> THEN <<>>
    ELSE SelectSeq(Tail(data), LAMBDA row : \E c \in 1..Len(row) : row[c] # Str(<<>>))

\* The output is a document whose k-th sheet element has one row element
\* per content row of the k-th selected sheet, each with one cell element
\* per cell: what lets the cells of the output be matched with the cells
\* of the sheets.
OutputAligned ==
    LET doc == OutputDocument
    IN  /\ doc.ok
        /\ Len(doc.sheets) = Len(SelectedInOrder)
        /\ \A k \in 1..Len(doc.sheets) :
              LET rows == ContentRows(SelectedInOrder[k].data)
              IN  /\ Len(doc.sheets[k].rows) = Len(rows)
                  /\ \A j \in 1..Len(rows) :
                        Len(doc.sheets[k].rows[j].cells) = Len(rows[j])

\* the cells of the output, each with the header row and the cell it was
\* emitted for; col is the 1-based column
EmittedCells ==
    LET doc == OutputDocument
    IN  UNION { UNION { { [headers |-> SelectedInOrder[k].data[1],
                           col     |-> c,
                           cell    |-> ContentRows(SelectedInOrder[k].data)[j][c],
                           tag     |-> doc.sheets[k].rows[j].cells[c].tag,
                           text    |-> doc.sheets[k].rows[j].cells[c].text]
                          : c \in 1..Len(doc.sheets[k].rows[j].cells) }
                      : j \in 1..Len(doc.sheets[k].rows) }
              : k \in 1..Len(doc.sheets) }

-----------------------------------------------------------------------------
(* C1 *)

\* C1: a successful convertToXml emits exactly one <Sheet> element per
\* selected sheet name, in the order the sheets were extracted (not the
\* order they were toggled in); an unselected sheet emits nothing.
C1_SheetsInExtractionOrder ==
    xmlOutput # <<>> =>
        LET doc == OutputDocument
        IN  /\ doc.ok
            /\ Len(doc.sheets) = Len(selectedSheets)
            /\ Len(doc.sheets) = Len(SelectedNamesInOrder)
            /\ \A k \in 1..Len(doc.sheets) :
                  /\ doc.sheets[k].tag = <<"S","h","e","e","t">>
                  /\ doc.sheets[k].attr =
                        <<"n","a","m","e","=","\"">>
                        \o EscapedOnce(SelectedNamesInOrder[k]) \o <<"\"">>

\* converted with the third sheet toggled on before the first, the second off
C1_Witness ==
    /\ xmlOutput # <<>>
    /\ Len(sheets) = 3
    /\ selectedSheets = <<sheets[3].name, sheets[1].name>>

-----------------------------------------------------------------------------
(* C7 *)

\* C7: for each selected sheet the <Row> elements correspond one-to-one and
\* in order to the data rows (index 1 and above) with at least one
\* non-empty cell; the header row and a data row of empty strings only (or
\* of no cells) produce no <Row>.
C7_RowsAreContentRows ==
    xmlOutput # <<>> =>
        LET doc == OutputDocument
        IN  /\ doc.ok
            /\ Len(doc.sheets) = Len(SelectedInOrder)
            /\ \A k \in 1..Len(doc.sheets) :
                  LET rows == ContentRows(SelectedInOrder[k].data)
                      out  == doc.sheets[k].rows
                  IN  /\ Len(out) = Len(rows)
                      /\ \A j \in 1..Len(out) :
                            /\ out[j].tag = <<"R","o","w">>
                            /\ [c \in 1..Len(out[j].cells) |-> out[j].cells[c].text]
                                  = [c \in 1..Len(rows[j]) |-> EscapedOnce(String(rows[j][c]))]

\* converted: a sheet whose first data row is all empty strings and whose
\* second has a filled cell
C7_Witness ==
    /\ xmlOutput # <<>>
    /\ Len(sheets) = 1
    /\ Len(sheets[1].data) = 3
    /\ sheets[1].data[2] = <<Str(<<>>), Str(<<>>)>>
    /\ sheets[1].data[3] = <<Str(<<>>), Str(<<"a">>)>>

-----------------------------------------------------------------------------
(* C8 *)

\* C8: every emitted cell at 0-based column i has the tag Column<i+1> if
\* the header cell at i is empty or absent, and otherwise the sanitized
\* header; the fallback is used only for an empty or absent header.
C8_TagFromHeader ==
    xmlOutput # <<>> =>
        /\ OutputAligned
        /\ \A e \in EmittedCells :
              e.tag = IF e.col > Len(e.headers) \/ e.headers[e.col] = Str(<<>>)
                        THEN <<"C","o","l","u","m","n">> \o NatToString(e.col)
                        ELSE SanitizedHeader(String(e.headers[e.col]))

-----------------------------------------------------------------------------
(* C9 *)

\* C9: the tag name derived for a cell, whatever its header string (empty,
\* a single disallowed character, a leading digit or '-'), matches
\* ^[A-Za-z_][A-Za-z0-9_-]*$.
C9_TagIsXmlName ==
    xmlOutput # <<>> =>
        /\ OutputAligned
        /\ \A e \in EmittedCells : IsXmlName(e.tag)

\* converted: a cell under a header that is a digit followed by '<'
C9_Witness ==
    /\ xmlOutput # <<>>
    /\ Len(sheets) = 1
    /\ Len(sheets[1].data) = 2
    /\ sheets[1].data[1] = <<Str(<<"7","<">>)>>
    /\ \E e \in EmittedCells : e.headers = <<Str(<<"7","<">>)>>

-----------------------------------------------------------------------------
(* C10 *)

\* C10: the text of every emitted cell is the cell string with each of
\* & < > " ' replaced by its entity exactly once: no raw < > " ' is left,
\* every & begins one of the five entities, and no & that a substitution
\* introduced is escaped again.
C10_TextEscapedOnce ==
    xmlOutput # <<>> =>
        /\ OutputAligned
        /\ \A e \in EmittedCells :
              /\ e.text = EscapedOnce(String(e.cell))
              /\ \A i \in 1..Len(e.text) :
                    /\ e.text[i] \notin {"<", ">", "\"", "'"}
                    /\ e.text[i] = "&" =>
                          \E ent \in Entities :
                              /\ i + Len(ent) - 1 <= Len(e.text)
                              /\ SubSeq(e.text, i, i + Len(ent) - 1) = ent

\* converted: a cell that holds "&<"
C10_Witness ==
    /\ xmlOutput # <<>>
    /\ \E e \in EmittedCells :
          /\ e.cell = Str(<<"&","<">>)
          /\ e.text = <<"&","a","m","p",";","&","l","t",";">>

-----------------------------------------------------------------------------
(* C2 *)

\* a suspended call of handleFileUpload ends in its catch block
FailsNow(u) == u \notin pending' /\ toast' = "Error Reading File"

\* C2: when an upload fails with a parse error, file, sheets, selection set
\* and XML output are, once handleFileUpload has finished, what they were
\* just before that upload started.
C2_ParseErrorRestoresState ==
    [][\A u \in pending :
          FailsNow(u) =>
              /\ file' = u.pre.file
              /\ sheets' = u.pre.sheets
              /\ selectedSheets' = u.pre.selectedSheets
              /\ xmlOutput' = u.pre.xmlOutput]_vars

-----------------------------------------------------------------------------
(* C3 *)

\* the selection set is empty, or no held sheet has a selected name
NoSheetSelected ==
    \/ Len(selectedSheets) = 0
    \/ ~\E i \in 1..Len(sheets) : sheets[i].name \in Range(selectedSheets)

\* C3: convertToXml called when the selection set is empty, or when no held
\* sheet has a selected name, fails with EmptySelection: the output is left
\* as it was and sheets, file and selection set are unchanged.
C3_EmptySelectionRejected ==
    [][(NoSheetSelected /\ CallConvertToXml) =>
          /\ toast' = "No Sheets Selected"
          /\ UNCHANGED <<xmlOutput, sheets, file, selectedSheets>>]_vars

\* rejected with no sheet held while names are still selected
C3_Witness ==
    /\ toast = "No Sheets Selected"
    /\ sheets = <<>>
    /\ selectedSheets # <<>>

-----------------------------------------------------------------------------
(* C4 *)

\* the name, in lower case, ends in .xlsx, .xls or .csv
HasAcceptedExtension(name) ==
    LET lower == [i \in 1..Len(name) |-> ToLowerChar(name[i])]
    IN  \E ext \in { <<".","x","l","s","x">>, <<".","x","l","s">>, <<".","c","s","v">> } :
            /\ Len(lower) >= Len(ext)
            /\ SubSeq(lower, Len(lower) - Len(ext) + 1, Len(lower)) = ext

Unsupported(f) ==
    /\ f.type # XlsxMime /\ f.type # XlsMime /\ f.type # CsvMime
    /\ ~HasAcceptedExtension(f.name)

\* C4: an upload is rejected with UnsupportedFormat exactly when its MIME
\* type is none of the three accepted ones and its name ends in none of
\* .xlsx, .xls, .csv (whatever the case); a rejected upload starts no parse
\* and leaves file, sheets, selection set, output and processing as they
\* were, and an upload that is not rejected is handed to the parser.
C4_UnsupportedFormat ==
    [][\A f \in Files :
          handleFileUpload(f) =>
              IF Unsupported(f)
                THEN /\ toast' = "Invalid File Type"
                     /\ UNCHANGED <<file, sheets, selectedSheets, xmlOutput,
                                    processing, pending>>
                ELSE /\ toast' = toast
                     /\ \E u \in pending' : u \notin pending /\ u.file = f]_vars

\* report.txt dropped on the component while it shows an output
C4_Witness ==
    /\ toast = "Invalid File Type"
    /\ file # null
    /\ xmlOutput # <<>>

-----------------------------------------------------------------------------
(* C5 *)

\* C5: in every reachable state the selection set is a subset of the names
\* of the held sheets.
C5_SelectionWithinSheets ==
    Range(selectedSheets) \subseteq Range(sheetNames(sheets))

-----------------------------------------------------------------------------
(* C6 *)

\* a suspended call of handleFileUpload ends its try block
LoadsNow(u) == u \notin pending' /\ toast' = "File Loaded Successfully"

\* C6: right after every successful extraction, whatever the selection set
\* was before, the selection set is the set of all names of the newly
\* extracted sheets.
C6_AllSelectedAfterExtraction ==
    [][\A u \in pending :
          LoadsNow(u) =>
              /\ sheets' = u.file.bytes.sheets
              /\ Range(selectedSheets') = { sh.name : sh \in Range(u.file.bytes.sheets) }
              /\ Len(selectedSheets') = Cardinality(Range(selectedSheets'))]_vars

\* B.XLS loaded over an output made of sheet S1 alone: S2 had been toggled
\* off in the workbook held before
C6_Witness ==
    /\ toast = "File Loaded Successfully"
    /\ sheets = FileB.bytes.sheets
    /\ xmlOutput = xmlOf(FileA.bytes.sheets, <<SheetS1.name>>)
    /\ selectedSheets = <<SheetS2b.name>>

-----------------------------------------------------------------------------
(* C11 *)

\* a data row with empty strings added up to the length of the header row
PaddedRow(headers, row) ==
    [c \in 1..(IF Len(headers) > Len(row) THEN Len(headers) ELSE Len(row)) |->
        IF c <= Len(row) THEN row[c] ELSE Str(<<>>)]

\* the <Row> element of the document made from one sheet P that holds the
\* header row and the one data row
RowElementOf(headers, row) ==
    ReadDocument(xmlOf(<<[name |-> <<"P">>, data |-> <<headers, row>>]>>,
                       <<<<"P">>>>)).sheets[1].rows[1]

-----------------------------------------------------------------------------
(* C12 *)

\* a file name without its extension: what precedes its last '.'
WithoutExtension(name) ==
    LET dots == Positions(name, ".")
    IN  IF dots = <<>> THEN name ELSE SubSeq(name, 1, dots[Len(dots)] - 1)

\* the artifact name of the held output: that of the file it was generated
\* from, output.xml when it was generated with no file held
ArtifactName ==
    IF generatedFrom # null
      THEN WithoutExtension(generatedFrom.name) \o <<".","x","m","l">>
      ELSE <<"o","u","t","p","u","t",".","x","m","l">>

\* C12: after any sequence of uploads, conversions and resets, a download
\* names the artifact <name of the file the downloaded XML was generated
\* from, without its extension>.xml, and output.xml only when no source
\* file name is known for that output.
C12_DownloadNamedAfterSource ==
    [][ClickSaveXml => download' = [name |-> ArtifactName]]_vars

-----------------------------------------------------------------------------
(* C13 *)

\* C13: every document produced by a successful conversion is the XML
\* declaration, then a single <Workbook> root in which every
\* <Sheet name="..."> (name escaped) is opened and closed inside the root,
\* every <Row> inside exactly one <Sheet>, and every cell element is opened
\* and closed with the same tag inside exactly one <Row>; a selected sheet
\* with no rows or only a header row yields an empty <Sheet> element.
C13_DocumentWellFormed ==
    xmlOutput # <<>> =>
        LET doc == OutputDocument
        IN  /\ doc.ok
            /\ doc.decl = <<"?","x","m","l"," ","v","e","r","s","i","o","n","=",
                            "\"","1",".","0","\""," ","e","n","c","o","d","i","n",
                            "g","=","\"","U","T","F","-","8","\"","?">>
            /\ doc.root = <<"W","o","r","k","b","o","o","k">>
            /\ Len(doc.sheets) = Len(SelectedInOrder)
            /\ \A k \in 1..Len(doc.sheets) :
                  LET el == doc.sheets[k]
                      sh == SelectedInOrder[k]
                  IN  /\ el.tag = <<"S","h","e","e","t">>
                      /\ el.attr = <<"n","a","m","e","=","\"">>
                                   \o EscapedOnce(sh.name) \o <<"\"">>
                      /\ \A i \in 1..Len(EscapedOnce(sh.name)) :
                            EscapedOnce(sh.name)[i] \notin {"<", ">", "\""}
                      /\ Len(sh.data) <= 1 => el.rows = <<>>
                      /\ \A j \in 1..Len(el.rows) :
                            /\ el.rows[j].tag = <<"R","o","w">>
                            /\ \A c \in 1..Len(el.rows[j].cells) :
                                  /\ el.rows[j].cells[c].tag # <<>>
                                  /\ " " \notin Range(el.rows[j].cells[c].tag)
                                  /\ ~IsClosingTag(el.rows[j].cells[c].tag)

\* converted, all selected: a sheet with no rows, a sheet with a header row
\* only and whose name holds '&', and a sheet with a data row
C13_Witness ==
    /\ xmlOutput # <<>>
    /\ Len(sheets) = 3
    /\ Len(selectedSheets) = 3
    /\ sheets[1].data = <<>>
    /\ Len(sheets[2].data) = 1
    /\ "&" \in Range(sheets[2].name)
    /\ OutputDocument.ok
    /\ OutputDocument.sheets[1].rows = <<>>
    /\ OutputDocument.sheets[2].rows = <<>>
    /\ OutputDocument.sheets[3].rows # <<>>

-----------------------------------------------------------------------------
(* C14 *)

\* C14: in every reachable state where the XML output is non-empty, it is
\* the serialization of the currently held sheets restricted to the current
\* selection set; no sequence of events leaves an output that was generated
\* from sheets or a selection that are no longer the current ones.
C14_OutputOfCurrentSheets ==
    xmlOutput # <<>> => xmlOutput = xmlOf(sheets, selectedSheets)

-----------------------------------------------------------------------------
(* C15 *)

\* the last suspended call of handleFileUpload finishes
LastUploadFinishes == pending # {} /\ pending' = {}

\* C15: when uploads overlap, then for every interleaving of their
\* completions, once all have finished the held sheets and the selection
\* set are those extracted from the file recorded as the current file: the
\* current file and the held sheets never come from different uploads.
C15_SheetsOfCurrentFile ==
    [][(LastUploadFinishes /\ file' # null) =>
          /\ file'.bytes.ok
          /\ sheets' = file'.bytes.sheets
          /\ Range(selectedSheets') = Range(sheetNames(file'.bytes.sheets))]_vars

-----------------------------------------------------------------------------
(* C16 *)

\* processing is true whenever a call of handleFileUpload is still in flight
ProcessingWhileInFlight == pending # {} => processing

\* whatever set the flag, an upload or a conversion, the flag becomes false
ProcessingEnds == processing ~> ~processing

\* C16: the processing flag tracks in-flight work: it is true whenever an
\* upload is still in flight (also when another upload, started after it,
\* has already finished), and every upload or conversion that starts
\* eventually leaves the flag false.
C16_ProcessingTracksWork ==
    /\ []ProcessingWhileInFlight
    /\ ProcessingEnds

=============================================================================
